---- MODULE Spec2Model ----
(***************************************************************************)
(* Model of the MintroAI backend funding service (server.js with the      *)
(* Chain Signatures funding endpoints): POST /api/fund-address,            *)
(* GET /api/check-balance, GET /api/funding-status, the WebSocket          *)
(* broadcast, and the remote ledgers the handlers talk to.                 *)
(*                                                                         *)
(* Each handler is an async function: it runs atomically from one await    *)
(* to the next, so every action below is one such segment.  The ledger     *)
(* (JSON-RPC node) is the environment: each remote call either returns,    *)
(* or throws an error with a code, at the moment the action fires.         *)
(***************************************************************************)
EXTENDS Integers, Sequences, FiniteSets, TLC

(***************************************************************************)
(* Bounds of the model.                                                    *)
(***************************************************************************)
NumCalls == 2          \* HTTP requests handled in one behaviour
NumObservers == 1      \* WebSocket clients that may connect

Calls == 1..NumCalls
Observers == 1..NumObservers

(***************************************************************************)
(* Amounts.  ethers works on bigint wei; 1 ether = 10^18 wei does not fit  *)
(* a model integer, so an amount is the pair <<gwei, wei>> standing for   *)
(* gwei * 10^9 + wei, with 0 <= wei < 10^9.  All arithmetic below is exact *)
(* wei arithmetic on that pair.                                            *)
(***************************************************************************)
WeiPerGwei == 10^9

Amt(g, w) == <<g, w>>

AmtLT(a, b) == a[1] < b[1] \/ (a[1] = b[1] /\ a[2] < b[2])

AmtGE(a, b) == ~AmtLT(a, b)

AmtAdd(a, b) ==
    LET w == a[2] + b[2]
    IN  IF w >= WeiPerGwei THEN <<a[1] + b[1] + 1, w - WeiPerGwei>>
                           ELSE <<a[1] + b[1], w>>

\* a - b, for a >= b
AmtSub(a, b) ==
    IF a[2] >= b[2] THEN <<a[1] - b[1], a[2] - b[2]>>
                    ELSE <<a[1] - b[1] - 1, a[2] + WeiPerGwei - b[2]>>

\* bigint division by 2n (truncating)
AmtHalf(a) ==
    <<a[1] \div 2, ((a[1] % 2) * WeiPerGwei + a[2]) \div 2>>

(***************************************************************************)
(* Decimal strings.  A decimal string such as "0.0025" is the record of   *)
(* its whole part and the sequence of its fractional digits.               *)
(***************************************************************************)
Dec(whole, frac) == [whole |-> whole, frac |-> frac]

RECURSIVE DigitsValue(_, _)
\* the number written by the first n digits of ds, read as if ds were
\* padded with zeros on the right
DigitsValue(ds, n) ==
    IF n = 0 THEN 0
    ELSE DigitsValue(ds, n - 1) * 10 + (IF n <= Len(ds) THEN ds[n] ELSE 0)

\* digits 10..18 of the fractional part, zero padded
LowDigits(ds) == [i \in 1..9 |-> IF i + 9 <= Len(ds) THEN ds[i + 9] ELSE 0]

\* ethers.parseEther: decimal ether string -> wei
parseEther(d) ==
    Amt(d.whole * WeiPerGwei + DigitsValue(d.frac, 9),
        DigitsValue(LowDigits(d.frac), 9))

RECURSIVE NumDigits(_, _)
\* the n decimal digits of v, most significant first
NumDigits(v, n) ==
    IF n = 0 THEN << >>
    ELSE Append(NumDigits(v \div 10, n - 1), v % 10)

RECURSIVE StripZeros(_)
\* drop trailing zeros, keeping at least one digit
StripZeros(ds) ==
    IF Len(ds) > 1 /\ ds[Len(ds)] = 0 THEN StripZeros(SubSeq(ds, 1, Len(ds) - 1))
    ELSE ds

\* ethers.formatEther: wei -> decimal ether string
formatEther(a) ==
    Dec(a[1] \div WeiPerGwei,
        StripZeros(NumDigits(a[1] % WeiPerGwei, 9) \o NumDigits(a[2], 9)))

(***************************************************************************)
(* Network registry.                                                       *)
(***************************************************************************)
NETWORK_CONFIGS ==
    [ c \in {"97", "1313161555"} |->
        IF c = "97"
        THEN [ rpcUrl |-> "https://data-seed-prebsc-1-s1.binance.org:8545",
               fundingAmount |-> Dec(0, <<0, 0, 2, 5>>),
               name |-> "BSC Testnet" ]
        ELSE [ rpcUrl |-> "https://testnet.aurora.dev",
               fundingAmount |-> Dec(0, <<0, 0, 2, 5>>),
               name |-> "Aurora Testnet" ] ]

\* the "Supported Networks" table of the README: chain ID -> funding amount
README_NETWORKS ==
    [ c \in {"97", "1313161555", "42161"} |->
        IF c = "42161" THEN Dec(0, <<0, 0, 1>>) ELSE Dec(0, <<0, 0, 2, 5>>) ]

\* the keys of NETWORK_CONFIGS
RegistryKeys == DOMAIN NETWORK_CONFIGS

\* Object.entries(NETWORK_CONFIGS): integer-like keys in ascending order
RegistryOrder == <<"97", "1313161555">>

\* NETWORK_CONFIGS[chainId] is undefined (falsy) for a key not in the object
HasConfig(chainId) == chainId \in RegistryKeys

(***************************************************************************)
(* Inputs and environment.                                                 *)
(***************************************************************************)
\* request parameters a client may send ("" is a missing parameter)
AddressInputs == {"", "not-an-address", "0xTargetA"}
ChainInputs == {"", "97", "1313161555", "42161"}

\* the strings ethers.isAddress accepts
ValidAddresses == {"0xTargetA", "0xTargetB"}

isAddress(a) == a \in ValidAddresses

\* process.env.NEXT_PUBLIC_FUNDER_PRIVATE_KEY: unset, not a private key, a key
KeyValues == {"", "malformed", "key"}

\* new ethers.Wallet(key) throws on a string that is no private key
WalletThrows(key) == key = "malformed"

\* funderWallet.address
FunderAddress == "0xFunder"

Accounts == {FunderAddress} \cup ValidAddresses

\* error codes a rejected ledger call carries (error.code)
BalanceErrors == {"NETWORK_ERROR", "TIMEOUT"}
SendErrors == {"INSUFFICIENT_FUNDS", "NETWORK_ERROR", "TIMEOUT"}
WaitErrors == {"NETWORK_ERROR", "TIMEOUT"}

Zero == Amt(0, 0)
OneWei == Amt(0, 1)
OneEther == Amt(WeiPerGwei, 0)

\* the funding amount of a registry network, in wei
FundingWei(ch) == parseEther(NETWORK_CONFIGS[ch].fundingAmount)

\* balances the ledgers may hold when the server starts
FunderBalances(ch) ==
    { AmtSub(FundingWei(ch), OneWei), FundingWei(ch), OneEther }
TargetBalances(ch) ==
    { Zero, AmtSub(AmtHalf(FundingWei(ch)), OneWei), AmtHalf(FundingWei(ch)),
      FundingWei(ch) }

VARIABLES
    env,        \* process.env.NEXT_PUBLIC_FUNDER_PRIVATE_KEY
    balance,    \* ledger state: balance[chain][account], in wei
    height,     \* ledger state: block number of each chain
    txs,        \* transfers the ledgers accepted; the hash of one is its index
    call,       \* the HTTP requests: position and locals of each handler
    clients,    \* readyState of each WebSocket client
    inbox,      \* messages each WebSocket client received
    published   \* history: the data of every broadcast() call, in order

vars == <<env, balance, height, txs, call, clients, inbox, published>>

NoResponse == [status |-> 0]

\* a local the handler has not assigned yet
Undefined == Amt(-1, 0)

IdleCall ==
    [ pc |-> "idle", kind |-> "none", address |-> "", chainId |-> "",
      funderBalance |-> Undefined, addressBalance |-> Undefined, txHash |-> 0,
      idx |-> 0, balances |-> << >>,
      ops |-> << >>, response |-> NoResponse ]

Init ==
    /\ env \in KeyValues
    /\ \E fb \in [RegistryKeys -> UNION {FunderBalances(ch) : ch \in RegistryKeys}],
          tb \in [RegistryKeys -> UNION {TargetBalances(ch) : ch \in RegistryKeys}] :
          /\ \A ch \in RegistryKeys :
                fb[ch] \in FunderBalances(ch) /\ tb[ch] \in TargetBalances(ch)
          /\ tb["1313161555"] = AmtSub(AmtHalf(FundingWei("1313161555")), OneWei)
          /\ fb["1313161555"] # FundingWei("1313161555")
          /\ balance = [ ch \in RegistryKeys |->
                          [ a \in Accounts |->
                              IF a = FunderAddress THEN fb[ch]
                              ELSE IF a = "0xTargetA" THEN tb[ch] ELSE Zero ] ]
    /\ height = [ch \in RegistryKeys |-> 0]
    /\ txs = << >>
    /\ call = [c \in Calls |-> IdleCall]
    /\ clients = [o \in Observers |-> "NONE"]
    /\ inbox = [o \in Observers |-> << >>]
    /\ published = << >>

\* requests are numbered in the order they arrive
Arrives(c) ==
    /\ call[c].pc = "idle"
    /\ \A d \in Calls : d < c => call[d].pc # "idle"

(***************************************************************************)
(* WebSocket server and broadcast.                                         *)
(***************************************************************************)
\* wss.on('connection'): the new client is sent the welcome message
Connect(o) ==
    /\ clients[o] = "NONE"
    /\ clients' = [clients EXCEPT ![o] = "OPEN"]
    /\ inbox' = [inbox EXCEPT ![o] = Append(@, [message |-> "Welcome to the WebSocket server!"])]
    /\ UNCHANGED <<env, balance, height, txs, call, published>>

\* a client starts closing: it stays in wss.clients, readyState CLOSING
StartClose(o) ==
    /\ clients[o] = "OPEN"
    /\ clients' = [clients EXCEPT ![o] = "CLOSING"]
    /\ UNCHANGED <<env, balance, height, txs, call, inbox, published>>

\* ws.on('close'): the client is removed from wss.clients
Closed(o) ==
    /\ clients[o] \in {"OPEN", "CLOSING"}
    /\ clients' = [clients EXCEPT ![o] = "CLOSED"]
    /\ UNCHANGED <<env, balance, height, txs, call, inbox, published>>

\* variant: readyState is not tested, every client of wss.clients is sent to
BroadcastUntested(data) ==
    [ o \in Observers |->
        IF clients[o] \in {"OPEN", "CLOSING"} THEN Append(inbox[o], data)
        ELSE inbox[o] ]

\* broadcast(data): the inboxes after client.send to every OPEN client
Broadcast(data) ==
    [ o \in Observers |->
        IF clients[o] = "OPEN" THEN Append(inbox[o], data) ELSE inbox[o] ]

(***************************************************************************)
(* Ledger (the JSON-RPC nodes): the environment of the handlers.           *)
(***************************************************************************)
\* a transfer the ledger accepted; its hash is its index in txs
NewTx(ch, to, value) ==
    [ chain |-> ch, from |-> FunderAddress, to |-> to, value |-> value,
      status |-> "pending", blockNumber |-> 0 ]

\* a pending transfer is included in the next block of its chain; a transfer
\* the sender can no longer pay for is dropped
Mine(h) ==
    /\ h \in 1..Len(txs)
    /\ txs[h].status = "pending"
    /\ LET t == txs[h]
           ch == t.chain
       IN  IF AmtGE(balance[ch][t.from], t.value)
           THEN /\ height' = [height EXCEPT ![ch] = @ + 1]
                /\ txs' = [txs EXCEPT ![h].status = "mined",
                                      ![h].blockNumber = height[ch] + 1]
                /\ balance' =
                     [balance EXCEPT ![ch] =
                        [ a \in Accounts |->
                            LET afterDebit ==
                                  IF a = t.from THEN AmtSub(balance[ch][a], t.value)
                                  ELSE balance[ch][a]
                            IN  IF a = t.to THEN AmtAdd(afterDebit, t.value)
                                ELSE afterDebit ]]
           ELSE /\ txs' = [txs EXCEPT ![h].status = "dropped"]
                /\ UNCHANGED <<height, balance>>
    /\ UNCHANGED <<env, call, clients, inbox, published>>

\* the record of one remote call in a handler's history
Op(name, ch, to, value) == [op |-> name, chain |-> ch, to |-> to, value |-> value]

\* the record of a remote call that threw
Threw(ch) == Op("threw", ch, "", Zero)

(***************************************************************************)
(* POST /api/fund-address                                                  *)
(***************************************************************************)
\* variant: an error with an unknown code is thrown on, and nothing answers
FundCatchRethrows(code) ==
    IF code = "INSUFFICIENT_FUNDS"
    THEN [status |-> 500, error |-> "Funder wallet has insufficient balance"]
    ELSE IF code = "NETWORK_ERROR"
    THEN [status |-> 500, error |-> "Network connection error. Please try again."]
    ELSE NoResponse

\* the catch block of the fund handler
FundCatch(code) ==
    IF code = "INSUFFICIENT_FUNDS"
    THEN [status |-> 500, error |-> "Funder wallet has insufficient balance"]
    ELSE IF code = "NETWORK_ERROR"
    THEN [status |-> 500, error |-> "Network connection error. Please try again."]
    ELSE [status |-> 500, error |-> "Failed to fund address", details |-> code]

\* variant: the balance is compared with the minimum, not with the amount
UnderfundedAgainstMinimum(funderBalance, fundingAmount) ==
    AmtLT(funderBalance, AmtHalf(fundingAmount))

\* variant: only an empty custodian wallet counts as underfunded
UnderfundedOnlyEmpty(funderBalance, fundingAmount) == funderBalance = Zero

\* funderBalance < fundingAmount
Underfunded(funderBalance, fundingAmount) == AmtLT(funderBalance, fundingAmount)

\* variant: the division by two is left out
MinimumBalanceWhole(fundingAmount) == fundingAmount

\* const minimumBalance = fundingAmount / 2n
MinimumBalance(fundingAmount) == AmtHalf(fundingAmount)

\* variant: the balance is compared with the whole funding amount
SufficientAgainstAmount(addressBalance, minimumBalance) ==
    AmtGE(addressBalance, AmtAdd(minimumBalance, minimumBalance))

\* variant: a balance equal to the minimum does not count
SufficientStrict(addressBalance, minimumBalance) == AmtLT(minimumBalance, addressBalance)

\* variant: a lock across calls, a pending transfer of the custodian counts
\* as funding under way
SufficientOrPending(addressBalance, minimumBalance) ==
    \/ AmtGE(addressBalance, minimumBalance)
    \/ \E h \in DOMAIN txs : txs[h].status = "pending"

\* addressBalance >= minimumBalance
Sufficient(addressBalance, minimumBalance) == AmtGE(addressBalance, minimumBalance)

\* variant: the chain is resolved before the address is validated
FundValidateChainFirst(address, chainId, key) ==
    IF address = "" \/ chainId = ""
    THEN [status |-> 400, error |-> "Missing required parameters: address and chainId"]
    ELSE IF ~HasConfig(chainId)
    THEN [status |-> 400, error |-> "Unsupported chain ID", chainId |-> chainId]
    ELSE IF ~isAddress(address)
    THEN [status |-> 400, error |-> "Invalid Ethereum address"]
    ELSE IF key = ""
    THEN [status |-> 500,
          error |-> "Funding service not configured. Please contact administrator."]
    ELSE IF WalletThrows(key)
    THEN FundCatch("INVALID_ARGUMENT")
    ELSE NoResponse

\* variant: the private key is looked at before the chain is resolved
FundValidateKeyFirst(address, chainId, key) ==
    IF address = "" \/ chainId = ""
    THEN [status |-> 400, error |-> "Missing required parameters: address and chainId"]
    ELSE IF ~isAddress(address)
    THEN [status |-> 400, error |-> "Invalid Ethereum address"]
    ELSE IF key = ""
    THEN [status |-> 500,
          error |-> "Funding service not configured. Please contact administrator."]
    ELSE IF ~HasConfig(chainId)
    THEN [status |-> 400, error |-> "Unsupported chain ID", chainId |-> chainId]
    ELSE IF WalletThrows(key)
    THEN FundCatch("INVALID_ARGUMENT")
    ELSE NoResponse

\* variant: the private key is never tested for presence
FundValidateNoKeyTest(address, chainId, key) ==
    IF address = "" \/ chainId = ""
    THEN [status |-> 400, error |-> "Missing required parameters: address and chainId"]
    ELSE IF ~isAddress(address)
    THEN [status |-> 400, error |-> "Invalid Ethereum address"]
    ELSE IF ~HasConfig(chainId)
    THEN [status |-> 400, error |-> "Unsupported chain ID", chainId |-> chainId]
    ELSE IF WalletThrows(key)
    THEN FundCatch("INVALID_ARGUMENT")
    ELSE NoResponse

\* the response of the synchronous checks, or NoResponse when they all pass
FundValidate(address, chainId, key) ==
    IF address = "" \/ chainId = ""
    THEN [status |-> 400, error |-> "Missing required parameters: address and chainId"]
    ELSE IF ~isAddress(address)
    THEN [status |-> 400, error |-> "Invalid Ethereum address"]
    ELSE IF ~HasConfig(chainId)
    THEN [status |-> 400, error |-> "Unsupported chain ID", chainId |-> chainId]
    ELSE IF key = ""
    THEN [status |-> 500,
          error |-> "Funding service not configured. Please contact administrator."]
    ELSE IF WalletThrows(key)
    THEN FundCatch("INVALID_ARGUMENT")
    ELSE NoResponse

\* the request arrives: validation, provider and wallet, then the first await
FundRequest(c, address, chainId) ==
    /\ Arrives(c)
    /\ LET r == FundValidate(address, chainId, env)
           me == [call[c] EXCEPT !.kind = "fund", !.address = address,
                                 !.chainId = chainId]
       IN  call' = [call EXCEPT ![c] =
              IF r # NoResponse
              THEN [me EXCEPT !.pc = "done", !.response = r]
              ELSE [me EXCEPT !.pc = "awaitFunderBalance",
                              !.ops = Append(@, Op("getBalance", chainId, FunderAddress, Zero))]]
    /\ UNCHANGED <<env, balance, height, txs, clients, inbox, published>>

\* provider.getBalance(funderWallet.address) returns: the affordability check
FundFunderBalance(c) ==
    /\ call[c].pc = "awaitFunderBalance"
    /\ LET me == call[c]
           ch == me.chainId
           funderBalance == balance[ch][FunderAddress]
           fundingAmount == parseEther(NETWORK_CONFIGS[ch].fundingAmount)
       IN  call' = [call EXCEPT ![c] =
              IF Underfunded(funderBalance, fundingAmount)
              THEN [me EXCEPT !.pc = "done", !.funderBalance = funderBalance,
                      !.response =
                         [status |-> 500,
                          error |-> "Funding service temporarily unavailable. Insufficient balance."]]
              ELSE [me EXCEPT !.pc = "awaitAddressBalance",
                      !.funderBalance = funderBalance,
                      !.ops = Append(@, Op("getBalance", ch, me.address, Zero))]]
    /\ UNCHANGED <<env, balance, height, txs, clients, inbox, published>>

\* provider.getBalance(address) returns: the idempotency check, then the send
FundAddressBalance(c) ==
    /\ call[c].pc = "awaitAddressBalance"
    /\ LET me == call[c]
           ch == me.chainId
           addressBalance == balance[ch][me.address]
           fundingAmount == parseEther(NETWORK_CONFIGS[ch].fundingAmount)
           minimumBalance == MinimumBalance(fundingAmount)
       IN  call' = [call EXCEPT ![c] =
              IF Sufficient(addressBalance, minimumBalance)
              THEN [me EXCEPT !.pc = "done", !.addressBalance = addressBalance,
                      !.response =
                         [status |-> 200, success |-> TRUE,
                          message |-> "Address already has sufficient balance",
                          balance |-> formatEther(addressBalance),
                          funded |-> FALSE]]
              ELSE [me EXCEPT !.pc = "awaitSend",
                      !.addressBalance = addressBalance,
                      !.ops = Append(@, Op("sendTransaction", ch, me.address,
                                           fundingAmount))]]
    /\ UNCHANGED <<env, balance, height, txs, clients, inbox, published>>

\* a balance query of the fund handler throws: the catch block answers
FundBalanceFails(c, code) ==
    /\ call[c].pc \in {"awaitFunderBalance", "awaitAddressBalance"}
    /\ call' = [call EXCEPT ![c].pc = "done", ![c].response = FundCatch(code),
                            ![c].ops = Append(@, Threw(call[c].chainId))]
    /\ UNCHANGED <<env, balance, height, txs, clients, inbox, published>>

\* variant: the event is broadcast as soon as the transfer is submitted
FundSendAcceptedPublishes(c) ==
    /\ call[c].pc = "awaitSend"
    /\ LET me == call[c]
           ch == me.chainId
           fundingAmount == parseEther(NETWORK_CONFIGS[ch].fundingAmount)
           data == [ type |-> "addressFunded", address |-> me.address,
                     chainId |-> ch, amount |-> NETWORK_CONFIGS[ch].fundingAmount,
                     txHash |-> Len(txs) + 1 ]
       IN  /\ AmtGE(balance[ch][FunderAddress], fundingAmount)
           /\ txs' = Append(txs, NewTx(ch, me.address, fundingAmount))
           /\ inbox' = Broadcast(data)
           /\ published' = Append(published, data)
           /\ call' = [call EXCEPT ![c] =
                 [me EXCEPT !.pc = "awaitWait", !.txHash = Len(txs) + 1,
                            !.ops = Append(Append(@, Op("broadcast", ch, me.address, Zero)),
                                           Op("wait", ch, me.address, Zero))]]
    /\ UNCHANGED <<env, balance, height, clients>>

\* funderWallet.sendTransaction returns: the ledger accepted the transfer,
\* and the handler awaits tx.wait(1)
FundSendAccepted(c) ==
    /\ call[c].pc = "awaitSend"
    /\ LET me == call[c]
           ch == me.chainId
           fundingAmount == parseEther(NETWORK_CONFIGS[ch].fundingAmount)
       IN  /\ AmtGE(balance[ch][FunderAddress], fundingAmount)
           /\ txs' = Append(txs, NewTx(ch, me.address, fundingAmount))
           /\ call' = [call EXCEPT ![c] =
                 [me EXCEPT !.pc = "awaitWait", !.txHash = Len(txs) + 1,
                            !.ops = Append(@, Op("wait", ch, me.address, Zero))]]
    /\ UNCHANGED <<env, balance, height, clients, inbox, published>>

\* variant: a failed submission is tried again
FundSendRetries(c, code) ==
    /\ call[c].pc = "awaitSend"
    /\ call' = [call EXCEPT ![c].ops =
                  Append(@, Op("sendTransaction", call[c].chainId, call[c].address,
                               parseEther(NETWORK_CONFIGS[call[c].chainId].fundingAmount)))]
    /\ UNCHANGED <<env, balance, height, txs, clients, inbox, published>>

\* funderWallet.sendTransaction throws and the ledger has no transfer
FundSendFails(c, code) ==
    /\ call[c].pc = "awaitSend"
    /\ call' = [call EXCEPT ![c].pc = "done", ![c].response = FundCatch(code),
                            ![c].ops = Append(@, Threw(call[c].chainId))]
    /\ UNCHANGED <<env, balance, height, txs, clients, inbox, published>>

\* funderWallet.sendTransaction throws although the ledger accepted the
\* transfer (the node's answer is lost on the way back)
FundSendLost(c, code) ==
    /\ call[c].pc = "awaitSend"
    /\ LET me == call[c]
           ch == me.chainId
           fundingAmount == parseEther(NETWORK_CONFIGS[ch].fundingAmount)
       IN  /\ AmtGE(balance[ch][FunderAddress], fundingAmount)
           /\ txs' = Append(txs, NewTx(ch, me.address, fundingAmount))
           /\ call' = [call EXCEPT ![c] =
                 [me EXCEPT !.pc = "done", !.response = FundCatch(code),
                            !.ops = Append(@, Threw(ch))]]
    /\ UNCHANGED <<env, balance, height, clients, inbox, published>>

\* variant: the event leaves out the chain
FundedEventNoChain(address, chainId, amount, txHash) ==
    [ type |-> "addressFunded", address |-> address, amount |-> amount,
      txHash |-> txHash ]

\* the addressFunded event of the fund handler
FundedEvent(address, chainId, amount, txHash) ==
    [ type |-> "addressFunded", address |-> address, chainId |-> chainId,
      amount |-> amount, txHash |-> txHash ]

\* the response of a successful funding
FundedResponse(address, config, txHash, blockNumber) ==
    [ status |-> 200, success |-> TRUE,
      message |-> [ text |-> "Successfully funded", address |-> address,
                    amount |-> config.fundingAmount, network |-> config.name ],
      txHash |-> txHash, blockNumber |-> blockNumber, funded |-> TRUE ]

\* variant: the handler does not await tx.wait(1) and answers at once
FundConfirmedUnmined(c) ==
    /\ call[c].pc = "awaitWait"
    /\ LET me == call[c]
           networkConfig == NETWORK_CONFIGS[me.chainId]
           tx == txs[me.txHash]
           data == FundedEvent(me.address, me.chainId,
                               networkConfig.fundingAmount, me.txHash)
       IN  /\ inbox' = Broadcast(data)
           /\ published' = Append(published, data)
           /\ call' = [call EXCEPT ![c] =
                 [me EXCEPT !.pc = "done",
                    !.ops = Append(@, Op("broadcast", me.chainId, me.address, Zero)),
                    !.response = FundedResponse(me.address, networkConfig,
                                                me.txHash, tx.blockNumber)]]
    /\ UNCHANGED <<env, balance, height, txs, clients>>

\* tx.wait(1) returns the receipt: broadcast, then the 200 response
FundConfirmed(c) ==
    /\ call[c].pc = "awaitWait"
    /\ LET me == call[c]
           networkConfig == NETWORK_CONFIGS[me.chainId]
           tx == txs[me.txHash]
           data == FundedEvent(me.address, me.chainId,
                               networkConfig.fundingAmount, me.txHash)
       IN  /\ tx.status = "mined"
           /\ inbox' = Broadcast(data)
           /\ published' = Append(published, data)
           /\ call' = [call EXCEPT ![c] =
                 [me EXCEPT !.pc = "done",
                    !.ops = Append(@, Op("broadcast", me.chainId, me.address, Zero)),
                    !.response = FundedResponse(me.address, networkConfig,
                                                me.txHash, tx.blockNumber)]]
    /\ UNCHANGED <<env, balance, height, txs, clients>>

\* tx.wait(1) throws: the catch block answers
FundWaitFails(c, code) ==
    /\ call[c].pc = "awaitWait"
    /\ call' = [call EXCEPT ![c].pc = "done", ![c].response = FundCatch(code),
                            ![c].ops = Append(@, Threw(call[c].chainId))]
    /\ UNCHANGED <<env, balance, height, txs, clients, inbox, published>>

(***************************************************************************)
(* GET /api/check-balance                                                  *)
(***************************************************************************)
\* the response of the synchronous checks, or NoResponse when they pass
CheckValidate(address, chainId) ==
    IF address = "" \/ chainId = ""
    THEN [status |-> 400, error |-> "Missing required parameters: address and chainId"]
    ELSE IF ~HasConfig(chainId)
    THEN [status |-> 400, error |-> "Unsupported chain ID", chainId |-> chainId]
    ELSE NoResponse

CheckRequest(c, address, chainId) ==
    /\ Arrives(c)
    /\ LET r == CheckValidate(address, chainId)
           me == [call[c] EXCEPT !.kind = "check", !.address = address,
                                 !.chainId = chainId]
       IN  call' = [call EXCEPT ![c] =
              IF r # NoResponse
              THEN [me EXCEPT !.pc = "done", !.response = r]
              ELSE [me EXCEPT !.pc = "awaitCheckBalance",
                              !.ops = Append(@, Op("getBalance", chainId, address, Zero))]]
    /\ UNCHANGED <<env, balance, height, txs, clients, inbox, published>>

\* provider.getBalance(address) returns (it cannot for a string that is no address)
CheckBalance(c) ==
    /\ call[c].pc = "awaitCheckBalance"
    /\ isAddress(call[c].address)
    /\ LET me == call[c]
           bal == balance[me.chainId][me.address]
       IN  call' = [call EXCEPT ![c] =
              [me EXCEPT !.pc = "done", !.addressBalance = bal,
                 !.response =
                    [status |-> 200, success |-> TRUE, address |-> me.address,
                     chainId |-> me.chainId, balance |-> formatEther(bal),
                     network |-> NETWORK_CONFIGS[me.chainId].name]]]
    /\ UNCHANGED <<env, balance, height, txs, clients, inbox, published>>

CheckBalanceFails(c, code) ==
    /\ call[c].pc = "awaitCheckBalance"
    /\ call' = [call EXCEPT ![c].pc = "done",
                  ![c].ops = Append(@, Threw(call[c].chainId)),
                  ![c].response = [status |-> 500, error |-> "Failed to check balance",
                                   details |-> code]]
    /\ UNCHANGED <<env, balance, height, txs, clients, inbox, published>>

(***************************************************************************)
(* GET /api/funding-status                                                 *)
(***************************************************************************)
\* variant: a balance equal to the funding amount cannot fund
CanFundStrict(bal, config) == AmtLT(parseEther(config.fundingAmount), bal)

\* balance >= ethers.parseEther(config.fundingAmount)
CanFund(bal, config) == AmtGE(bal, parseEther(config.fundingAmount))

\* the entry of a network whose balance query returned
StatusEntry(chainId, config, bal) ==
    [ chainId |-> chainId, network |-> config.name, balance |-> formatEther(bal),
      fundingAmount |-> config.fundingAmount, canFund |-> CanFund(bal, config) ]

\* the entry of a network whose balance query threw
StatusErrorEntry(chainId, config) ==
    [ chainId |-> chainId, network |-> config.name,
      error |-> "Failed to check balance" ]

StatusRequest(c) ==
    /\ Arrives(c)
    /\ LET me == [call[c] EXCEPT !.kind = "status"]
       IN  call' = [call EXCEPT ![c] =
              IF env = ""
              THEN [me EXCEPT !.pc = "done",
                      !.response = [status |-> 200, configured |-> FALSE,
                                    message |-> "Funding service not configured"]]
              ELSE IF WalletThrows(env)
              THEN [me EXCEPT !.pc = "done",
                      !.response = [status |-> 500,
                                    error |-> "Failed to check funding status"]]
              ELSE [me EXCEPT !.pc = "awaitStatusBalance", !.idx = 1,
                      !.ops = Append(@, Op("getBalance", RegistryOrder[1],
                                           FunderAddress, Zero))]]
    /\ UNCHANGED <<env, balance, height, txs, clients, inbox, published>>

\* the loop of the status handler after the entry of network idx is known:
\* the next iteration's balance query, or the response after the last one
StatusContinue(me, entry) ==
    LET balances == Append(me.balances, entry)
    IN  IF me.idx < Len(RegistryOrder)
        THEN [me EXCEPT !.balances = balances, !.idx = @ + 1,
                !.ops = Append(@, Op("getBalance", RegistryOrder[me.idx + 1],
                                     FunderAddress, Zero))]
        ELSE [me EXCEPT !.balances = balances, !.pc = "done",
                !.response = [status |-> 200, configured |-> TRUE,
                              funderAddress |-> FunderAddress,
                              balances |-> balances]]

\* provider.getBalance(funderAddress) returns for network idx
StatusBalance(c) ==
    /\ call[c].pc = "awaitStatusBalance"
    /\ LET me == call[c]
           chainId == RegistryOrder[me.idx]
           bal == balance[chainId][FunderAddress]
       IN  call' = [call EXCEPT ![c] =
              StatusContinue(me, StatusEntry(chainId, NETWORK_CONFIGS[chainId], bal))]
    /\ UNCHANGED <<env, balance, height, txs, clients, inbox, published>>

\* variant: without the inner try, the outer catch answers
StatusBalanceAborts(c) ==
    /\ call[c].pc = "awaitStatusBalance"
    /\ call' = [call EXCEPT ![c].pc = "done",
                  ![c].ops = Append(@, Threw(RegistryOrder[call[c].idx])),
                  ![c].response = [status |-> 500,
                                   error |-> "Failed to check funding status"]]
    /\ UNCHANGED <<env, balance, height, txs, clients, inbox, published>>

\* provider.getBalance(funderAddress) throws for network idx: the inner catch
StatusBalanceFails(c) ==
    /\ call[c].pc = "awaitStatusBalance"
    /\ LET me == call[c]
           chainId == RegistryOrder[me.idx]
       IN  call' = [call EXCEPT ![c] =
              StatusContinue([me EXCEPT !.ops = Append(@, Threw(chainId))],
                             StatusErrorEntry(chainId, NETWORK_CONFIGS[chainId]))]
    /\ UNCHANGED <<env, balance, height, txs, clients, inbox, published>>

(***************************************************************************)
(* POST /webhook                                                           *)
(***************************************************************************)
\* request bodies a webhook caller may send
WebhookPayloads == {"payload"}

\* the handler is synchronous: broadcast, then the 200 response
WebhookRequest(c, payload) ==
    /\ Arrives(c)
    /\ LET data == [type |-> "webhookReceived", data |-> payload]
       IN  /\ inbox' = Broadcast(data)
           /\ published' = Append(published, data)
           /\ call' = [call EXCEPT ![c] =
                 [@ EXCEPT !.kind = "webhook", !.pc = "done",
                    !.ops = Append(@, Op("broadcast", "", "", Zero)),
                    !.response = [status |-> 200,
                                  message |-> "Webhook processed and broadcasted"]]]
    /\ UNCHANGED <<env, balance, height, txs, clients>>

(***************************************************************************)
(* Specification.                                                          *)
(***************************************************************************)
Next ==
    \/ \E c \in Calls, a \in AddressInputs, ch \in ChainInputs : FundRequest(c, a, ch)
    \/ \E c \in Calls : FundFunderBalance(c)
    \/ \E c \in Calls : FundAddressBalance(c)
    \/ \E c \in Calls, code \in BalanceErrors : FundBalanceFails(c, code)
    \/ \E c \in Calls : FundSendAccepted(c)
    \/ \E c \in Calls, code \in SendErrors : FundSendFails(c, code)
    \/ \E c \in Calls, code \in WaitErrors : FundSendLost(c, code)
    \/ \E c \in Calls : FundConfirmed(c)
    \/ \E c \in Calls, code \in WaitErrors : FundWaitFails(c, code)
    \/ \E c \in Calls, a \in AddressInputs, ch \in ChainInputs : CheckRequest(c, a, ch)
    \/ \E c \in Calls : CheckBalance(c)
    \/ \E c \in Calls, code \in BalanceErrors : CheckBalanceFails(c, code)
    \/ \E c \in Calls : StatusRequest(c)
    \/ \E c \in Calls : StatusBalance(c)
    \/ \E c \in Calls : StatusBalanceFails(c)
    \/ \E c \in Calls, payload \in WebhookPayloads : WebhookRequest(c, payload)
    \/ \E h \in 1..NumCalls : Mine(h)
    \/ \E o \in Observers : Connect(o)
    \/ \E o \in Observers : StartClose(o)
    \/ \E o \in Observers : Closed(o)

Spec == Init /\ [][Next]_vars

\* the continuations of fund call c that run when the ledger has answered:
\* the event loop resumes a handler as soon as the promise it awaits settles
FundResumes(c) ==
    \/ FundFunderBalance(c)
    \/ FundAddressBalance(c)
    \/ FundSendAccepted(c)
    \/ FundConfirmed(c)

\* the fund handler and the ledgers alone, with a usable key, a custodian
\* holding one ether on every chain and an empty target on chain 97
InitLive ==
    /\ Init
    /\ env = "key"
    /\ \A ch \in RegistryKeys : balance[ch][FunderAddress] = OneEther
    /\ balance["97"]["0xTargetA"] = Zero

NextLive ==
    \/ \E c \in Calls, a \in AddressInputs, ch \in ChainInputs : FundRequest(c, a, ch)
    \/ \E c \in Calls : FundFunderBalance(c)
    \/ \E c \in Calls : FundAddressBalance(c)
    \/ \E c \in Calls, code \in BalanceErrors : FundBalanceFails(c, code)
    \/ \E c \in Calls : FundSendAccepted(c)
    \/ \E c \in Calls, code \in SendErrors : FundSendFails(c, code)
    \/ \E c \in Calls, code \in WaitErrors : FundSendLost(c, code)
    \/ \E c \in Calls : FundConfirmed(c)
    \/ \E c \in Calls, code \in WaitErrors : FundWaitFails(c, code)
    \/ \E h \in 1..NumCalls : Mine(h)

\* fund calls over ledgers that answer every query and submission in the
\* end; whether a submitted transfer is ever mined is left to the ledger
SpecLive ==
    InitLive /\ [][NextLive]_vars /\ \A c \in Calls : WF_vars(FundResumes(c))

\* the fund handler and the ledger of chain 97 alone, for requests that
\* share the custodian wallet: a usable key, a custodian holding the funding
\* amount or one wei less, two empty targets
InitShared ==
    /\ Init
    /\ env = "key"
    /\ AmtGE(FundingWei("97"), balance["97"][FunderAddress])
    /\ balance["1313161555"][FunderAddress] = OneEther
    /\ balance["97"]["0xTargetA"] = Zero

NextShared ==
    \/ \E c \in Calls, a \in ValidAddresses : FundRequest(c, a, "97")
    \/ \E c \in Calls : FundFunderBalance(c)
    \/ \E c \in Calls : FundAddressBalance(c)
    \/ \E c \in Calls, code \in BalanceErrors : FundBalanceFails(c, code)
    \/ \E c \in Calls : FundSendAccepted(c)
    \/ \E c \in Calls, code \in SendErrors : FundSendFails(c, code)
    \/ \E c \in Calls, code \in WaitErrors : FundSendLost(c, code)
    \/ \E c \in Calls : FundConfirmed(c)
    \/ \E c \in Calls, code \in WaitErrors : FundWaitFails(c, code)
    \/ \E h \in 1..NumCalls : Mine(h)

SpecShared == InitShared /\ [][NextShared]_vars

(***************************************************************************)
(* Vocabulary of the properties.                                           *)
(***************************************************************************)
FundCalls == { c \in Calls : call[c].kind = "fund" }

\* how many times the handler of call c made the remote call `name`
CountOps(c, name) ==
    Cardinality({ i \in DOMAIN call[c].ops : call[c].ops[i].op = name })

\* call c invoked sendTransaction
Sent(c) == CountOps(c, "sendTransaction") > 0

\* the idempotency threshold of a network: half its funding amount
Threshold(ch) == AmtHalf(FundingWei(ch))

\* call c has read the custodian balance / the target balance
SawFunder(c) == call[c].funderBalance # Undefined
SawTarget(c) == call[c].kind = "fund" /\ call[c].addressBalance # Undefined

\* the outcomes of a fund call
IsAlreadyFunded(c) ==
    /\ call[c].pc = "done"
    /\ call[c].response.status = 200
    /\ call[c].response.funded = FALSE

IsFunded(c) ==
    /\ call[c].pc = "done"
    /\ call[c].response.status = 200
    /\ call[c].response.funded = TRUE

IsRejected(c, text) ==
    /\ call[c].pc = "done"
    /\ call[c].response.status \in {400, 500}
    /\ call[c].response.error = text

(***************************************************************************)
(* C1: a fund call never invokes sendTransaction when the target balance   *)
(* it read is at least half the funding amount of the resolved network.    *)
(***************************************************************************)
C1_NoTransferAtOrAboveThreshold ==
    \A c \in FundCalls :
        Sent(c) => /\ SawTarget(c)
                   /\ AmtLT(call[c].addressBalance, Threshold(call[c].chainId))

\* a call that read a positive balance below the threshold and sent
C1_Witness ==
    \E c \in FundCalls :
        /\ Sent(c)
        /\ call[c].addressBalance = AmtSub(Threshold(call[c].chainId), OneWei)

(***************************************************************************)
(* C2: a fund call invokes sendTransaction at most once and tx.wait at     *)
(* most once, whatever the ledger answers, so the ledgers hold at most one *)
(* transfer per call that sent.                                            *)
(***************************************************************************)
C2_AtMostOneTransferPerCall ==
    /\ \A c \in Calls : /\ CountOps(c, "sendTransaction") <= 1
                        /\ CountOps(c, "wait") <= 1
    /\ Len(txs) <= Cardinality({ c \in FundCalls : Sent(c) })

\* a call whose submission threw and that ended with its single attempt
C2_Witness ==
    \E c \in FundCalls :
        /\ call[c].pc = "done"
        /\ CountOps(c, "sendTransaction") = 1
        /\ CountOps(c, "wait") = 0
        /\ CountOps(c, "threw") = 1

(***************************************************************************)
(* C3: a fund call that read a custodian balance below the funding amount  *)
(* answers "insufficient balance" (500) and has made no further remote     *)
(* call, whatever the target balance is.                                   *)
(***************************************************************************)
C3_UnderfundedRejects ==
    \A c \in FundCalls :
        (SawFunder(c) /\ AmtLT(call[c].funderBalance, FundingWei(call[c].chainId)))
        => /\ IsRejected(c, "Funding service temporarily unavailable. Insufficient balance.")
           /\ call[c].response.status = 500
           /\ ~Sent(c)
           /\ Len(call[c].ops) = 1
           /\ ~SawTarget(c)

\* rejected as underfunded while the target is already above the threshold
C3_Witness ==
    \E c \in FundCalls :
        /\ SawFunder(c)
        /\ AmtLT(call[c].funderBalance, FundingWei(call[c].chainId))
        /\ call[c].pc = "done"
        /\ AmtGE(balance[call[c].chainId][call[c].address], Threshold(call[c].chainId))
        /\ txs = << >>

C5_UnconfiguredMakesNoLedgerCall ==
    env = "" =>
      /\ txs = << >>
      /\ \A c \in Calls :
            /\ call[c].kind = "status" =>
                  /\ call[c].pc = "done"
                  /\ call[c].ops = << >>
                  /\ call[c].response.status = 200
                  /\ call[c].response.configured = FALSE
            /\ call[c].kind = "fund" =>
                  /\ call[c].pc = "done"
                  /\ call[c].ops = << >>
                  /\ IF isAddress(call[c].address) /\ call[c].chainId \in RegistryKeys
                     THEN /\ call[c].response.status = 500
                          /\ call[c].response.error =
                               "Funding service not configured. Please contact administrator."
                     ELSE call[c].response.status = 400

\* no key: a valid fund request and a status request have both been answered
C5_Witness ==
    /\ env = ""
    /\ \E c, d \in Calls :
        /\ call[c].kind = "fund" /\ call[c].pc = "done"
        /\ call[c].address = "0xTargetA" /\ call[c].chainId = "97"
        /\ call[d].kind = "status" /\ call[d].pc = "done"

(***************************************************************************)
(* C6: a fund call that read a target balance of exactly half the funding  *)
(* amount answers "already has sufficient balance" with that balance and   *)
(* sends nothing; one that read one wei less invokes sendTransaction.      *)
(***************************************************************************)
C6_ThresholdBoundary ==
    \A c \in FundCalls :
        /\ (SawTarget(c) /\ call[c].addressBalance = Threshold(call[c].chainId))
           => /\ IsAlreadyFunded(c)
              /\ ~Sent(c)
              /\ call[c].response.balance = Dec(0, <<0, 0, 1, 2, 5>>)
        /\ (SawTarget(c) /\
            call[c].addressBalance = AmtSub(Threshold(call[c].chainId), OneWei))
           => /\ Sent(c)
              /\ call[c].ops[3].op = "sendTransaction"
              /\ call[c].ops[3].to = call[c].address
              /\ call[c].ops[3].value = FundingWei(call[c].chainId)

\* one call at exactly the threshold, another one wei below it
C6_Witness ==
    \E c, d \in FundCalls :
        /\ SawTarget(c) /\ call[c].addressBalance = Threshold(call[c].chainId)
        /\ SawTarget(d)
        /\ call[d].addressBalance = AmtSub(Threshold(call[d].chainId), OneWei)
        /\ AmtGE(call[c].funderBalance, FundingWei(call[c].chainId))
        /\ AmtGE(call[d].funderBalance, FundingWei(call[d].chainId))

(***************************************************************************)
(* C7: whenever a fund call reads a target balance that is at least half   *)
(* the funding amount, or reads it after another fund call for the same    *)
(* address and chain has read such a balance, it answers "already has      *)
(* sufficient balance" with the balance it read, it has not invoked        *)
(* sendTransaction, and the step adds no transfer.  (The ledgers of the    *)
(* model never lower a target balance.)                                    *)
(***************************************************************************)
C7_Idempotent ==
    [][ \A d \in Calls :
          ( /\ call[d].pc = "awaitAddressBalance"
            /\ call'[d].addressBalance # Undefined
            /\ \/ AmtGE(call'[d].addressBalance, Threshold(call[d].chainId))
               \/ \E c \in FundCalls \ {d} :
                     /\ call[c].address = call[d].address
                     /\ call[c].chainId = call[d].chainId
                     /\ SawTarget(c)
                     /\ AmtGE(call[c].addressBalance, Threshold(call[c].chainId)) )
          => /\ call'[d].pc = "done"
             /\ call'[d].response.status = 200
             /\ call'[d].response.funded = FALSE
             /\ call'[d].response.balance = formatEther(call'[d].addressBalance)
             /\ AmtGE(call'[d].addressBalance, Threshold(call[d].chainId))
             /\ \A i \in DOMAIN call'[d].ops : call'[d].ops[i].op # "sendTransaction"
             /\ txs' = txs
      ]_vars

\* two fund calls for the same address and chain, both answered AlreadyFunded
C7_Witness ==
    \E c, d \in FundCalls :
        /\ c # d
        /\ call[c].address = call[d].address
        /\ call[c].chainId = call[d].chainId
        /\ IsAlreadyFunded(c) /\ IsAlreadyFunded(d)
        /\ txs = << >>

(***************************************************************************)
(* C8: a call has broadcast exactly once if it ended Funded and never      *)
(* otherwise; the broadcast comes after sendTransaction and tx.wait, when  *)
(* the transfer is mined; and the addressFunded events published are, one  *)
(* to one, the transfers of the calls that ended Funded.                   *)
(***************************************************************************)
FundedCalls == { c \in FundCalls : IsFunded(c) }

AddressFundedEvents ==
    { i \in DOMAIN published : published[i].type = "addressFunded" }

C8_NotifiedExactlyOnce ==
    /\ \A c \in FundCalls :
          CountOps(c, "broadcast") = (IF c \in FundedCalls THEN 1 ELSE 0)
    /\ \A c \in FundedCalls :
          /\ Len(call[c].ops) = 5
          /\ call[c].ops[3].op = "sendTransaction"
          /\ call[c].ops[4].op = "wait"
          /\ call[c].ops[5].op = "broadcast"
          /\ Cardinality({ i \in AddressFundedEvents :
                             published[i].txHash = call[c].txHash }) = 1
    /\ \A i \in AddressFundedEvents :
          /\ published[i].txHash \in 1..Len(txs)
          /\ txs[published[i].txHash].status = "mined"
          /\ \E c \in FundedCalls : call[c].txHash = published[i].txHash
    /\ Cardinality(AddressFundedEvents) = Cardinality(FundedCalls)

\* one call ended Funded, another sent and ended with an error: one event
C8_Witness ==
    \E c, d \in FundCalls :
        /\ IsFunded(c)
        /\ call[d].pc = "done" /\ ~IsFunded(d) /\ Sent(d)
        /\ Len(published) = 1

(***************************************************************************)
(* C9 as claimed: the addressFunded event of a Funded call carries the     *)
(* transaction hash, the confirming block and the amount of the response,  *)
(* plus the chainId.                                                       *)
(***************************************************************************)
C9_EventCarriesResponseFields ==
    \A c \in FundedCalls :
        \E i \in AddressFundedEvents :
            LET e == published[i]
                r == call[c].response
            IN  /\ e.txHash = r.txHash
                /\ e.amount = r.message.amount
                /\ e.chainId = call[c].chainId
                /\ "blockNumber" \in DOMAIN e
                /\ e.blockNumber = r.blockNumber

(***************************************************************************)
(* C9 amended: a Funded call has one transfer of the full funding amount   *)
(* (0.0025 ether) to its address; the response carries the hash and block  *)
(* of that transfer and names the configured amount in its message; the    *)
(* event carries exactly type, address, chainId, amount and txHash, with   *)
(* the same hash and amount, and no block number.                          *)
(***************************************************************************)
C9_FundedResponseAndEvent ==
    \A c \in FundedCalls :
        LET r == call[c].response
            t == txs[r.txHash]
            cfg == NETWORK_CONFIGS[call[c].chainId]
        IN  /\ r.txHash = call[c].txHash
            /\ t.status = "mined"
            /\ t.to = call[c].address /\ t.chain = call[c].chainId
            /\ t.from = FunderAddress
            /\ t.value = Amt(2500000, 0)
            /\ r.blockNumber = t.blockNumber
            /\ r.message.amount = Dec(0, <<0, 0, 2, 5>>)
            /\ r.message.amount = cfg.fundingAmount
            /\ r.message.address = call[c].address
            /\ \E i \in AddressFundedEvents :
                  LET e == published[i]
                  IN  /\ DOMAIN e = {"type", "address", "chainId", "amount", "txHash"}
                      /\ e.address = call[c].address
                      /\ e.chainId = call[c].chainId
                      /\ e.amount = r.message.amount
                      /\ parseEther(e.amount) = t.value
                      /\ e.txHash = r.txHash

\* a Funded call on chain 97 whose target started empty
C9_Witness ==
    \E c \in FundedCalls :
        /\ call[c].chainId = "97"
        /\ call[c].addressBalance = Zero
        /\ balance["97"][call[c].address] = Amt(2500000, 0)

(***************************************************************************)
(* C10: a funding-status call with a usable key always ends 200 with one   *)
(* entry per registry network, in registry order; the entry of a network   *)
(* is the error entry exactly when its balance query threw, and otherwise  *)
(* the full entry with balance, fundingAmount and canFund.                 *)
(***************************************************************************)
C10_PartialFailureIsolated ==
    \A c \in Calls :
        (call[c].kind = "status" /\ env = "key") =>
          /\ call[c].pc \in {"awaitStatusBalance", "done"}
          /\ call[c].pc = "awaitStatusBalance" => Len(call[c].balances) = call[c].idx - 1
          /\ call[c].pc = "done" =>
               /\ call[c].response.status = 200
               /\ call[c].response.configured = TRUE
               /\ call[c].response.balances = call[c].balances
               /\ Len(call[c].balances) = Cardinality(RegistryKeys)
          /\ \A i \in DOMAIN call[c].balances :
               LET e == call[c].balances[i]
                   threw == \E k \in DOMAIN call[c].ops :
                               /\ call[c].ops[k].op = "threw"
                               /\ call[c].ops[k].chain = e.chainId
               IN  /\ e.chainId = RegistryOrder[i]
                   /\ e.network = NETWORK_CONFIGS[e.chainId].name
                   /\ IF threw
                      THEN DOMAIN e = {"chainId", "network", "error"}
                      ELSE /\ DOMAIN e = {"chainId", "network", "balance",
                                          "fundingAmount", "canFund"}
                           /\ e.fundingAmount = NETWORK_CONFIGS[e.chainId].fundingAmount
                           /\ e.canFund \in BOOLEAN

\* the first network failed, the second one is reported in full
C10_Witness ==
    \E c \in Calls :
        /\ call[c].kind = "status" /\ call[c].pc = "done"
        /\ Len(call[c].balances) = 2
        /\ "error" \in DOMAIN call[c].balances[1]
        /\ "canFund" \in DOMAIN call[c].balances[2]

(***************************************************************************)
(* C11: a fund call is finished exactly when it has its response, and the  *)
(* status of the response is 400 when the address or chain fails           *)
(* validation, 500 when the key is absent or unusable, the custodian is    *)
(* underfunded or a remote call threw, and 200 otherwise (AlreadyFunded or *)
(* Funded).                                                                *)
(***************************************************************************)
ValidRequest(c) ==
    /\ call[c].address # "" /\ call[c].chainId # ""
    /\ isAddress(call[c].address)
    /\ call[c].chainId \in RegistryKeys

C11_FundAlwaysAnswers ==
    \A c \in FundCalls :
        /\ (call[c].pc = "done") <=> (call[c].response # NoResponse)
        /\ call[c].pc = "done" =>
             LET r == call[c].response
                 failed ==
                    \/ env # "key"
                    \/ CountOps(c, "threw") > 0
                    \/ /\ SawFunder(c)
                       /\ AmtLT(call[c].funderBalance, FundingWei(call[c].chainId))
             IN  /\ r.status \in {200, 400, 500}
                 /\ (r.status = 400) <=> ~ValidRequest(c)
                 /\ (r.status = 500) <=> (ValidRequest(c) /\ failed)
                 /\ (r.status = 200) <=> (ValidRequest(c) /\ ~failed)
                 /\ r.status = 200 => (IsAlreadyFunded(c) \/ IsFunded(c))
                 /\ r.status # 200 => "error" \in DOMAIN r

\* tx.wait threw an error the catch block does not know: the generic 500
C11_Witness ==
    \E c \in FundCalls :
        /\ call[c].pc = "done"
        /\ call[c].txHash # 0
        /\ call[c].response.status = 500
        /\ call[c].response.error = "Failed to fund address"
        /\ call[c].response.details = "TIMEOUT"

C13_EveryFundCallReturns ==
    \A c \in Calls : (call[c].kind = "fund") ~> (call[c].pc = "done")

(***************************************************************************)
(* C14 as claimed: every network of the README's table is resolved by the  *)
(* registry, with the README's funding amount: no fund or check-balance    *)
(* request for such a chain, with a well-formed address, is answered 400.  *)
(***************************************************************************)
C14_ReadmeNetworksResolved ==
    /\ \A ch \in DOMAIN README_NETWORKS \cap RegistryKeys :
          NETWORK_CONFIGS[ch].fundingAmount = README_NETWORKS[ch]
    /\ \A c \in Calls :
          ( /\ call[c].kind \in {"fund", "check"}
            /\ call[c].pc = "done"
            /\ isAddress(call[c].address)
            /\ call[c].chainId \in DOMAIN README_NETWORKS )
          => /\ HasConfig(call[c].chainId)
             /\ call[c].response.status # 400

(***************************************************************************)
(* C15: nothing locks the idempotency check across calls.  Whether a fund  *)
(* call invokes sendTransaction rests on the target balance it read alone, *)
(* whatever transfers other calls have pending: so two calls for the same  *)
(* address and chain can both read a balance below the threshold before    *)
(* either transfer is mined, and both submit a transfer.                   *)
(***************************************************************************)
C15_NoLockAcrossCalls ==
    \A c \in FundCalls :
        SawTarget(c) =>
            ( Sent(c) <=> AmtLT(call[c].addressBalance, Threshold(call[c].chainId)) )

\* two pending transfers to the same target, of two calls that both read a
\* target balance below the threshold
C15_Witness ==
    \E c, d \in FundCalls :
        /\ c # d
        /\ SawTarget(c) /\ SawTarget(d)
        /\ call[c].address = call[d].address /\ call[c].chainId = call[d].chainId
        /\ AmtLT(call[c].addressBalance, Threshold(call[c].chainId))
        /\ AmtLT(call[d].addressBalance, Threshold(call[d].chainId))
        /\ call[c].txHash # 0 /\ call[d].txHash # 0 /\ call[c].txHash # call[d].txHash
        /\ txs[call[c].txHash].to = call[c].address
        /\ txs[call[d].txHash].to = call[c].address
        /\ txs[call[c].txHash].status = "pending"
        /\ txs[call[d].txHash].status = "pending"

(***************************************************************************)
(* C16: the checks of a fund call run in a fixed order with early exits:   *)
(* missing parameter, address validity, chain resolution, key present,     *)
(* custodian affordability, target threshold, transfer.  The answer is     *)
(* that of the earliest failing step, whatever later steps would say, and  *)
(* a call makes remote calls only after the first checks passed, in the    *)
(* order custodian balance, target balance, sendTransaction.               *)
(***************************************************************************)
C16_EarliestFailingStepAnswers ==
    \A c \in FundCalls :
        LET a == call[c].address
            ch == call[c].chainId
            ops == call[c].ops
        IN  /\ (a = "" \/ ch = "")
               => IsRejected(c, "Missing required parameters: address and chainId")
            /\ (a # "" /\ ch # "" /\ ~isAddress(a))
               => /\ IsRejected(c, "Invalid Ethereum address")
                  /\ call[c].response.status = 400
            /\ (a # "" /\ ch # "" /\ isAddress(a) /\ ~HasConfig(ch))
               => /\ IsRejected(c, "Unsupported chain ID")
                  /\ call[c].response.status = 400
            /\ (ValidRequest(c) /\ env = "")
               => IsRejected(c, "Funding service not configured. Please contact administrator.")
            /\ ops # << >> => (ValidRequest(c) /\ env = "key")
            /\ Len(ops) >= 1 => (ops[1].op = "getBalance" /\ ops[1].to = FunderAddress)
            /\ (Len(ops) >= 2 /\ ops[2].op # "threw")
               => /\ ops[2].op = "getBalance" /\ ops[2].to = a
                  /\ AmtGE(call[c].funderBalance, FundingWei(ch))
            /\ (SawFunder(c) /\ AmtLT(call[c].funderBalance, FundingWei(ch)))
               => /\ IsRejected(c, "Funding service temporarily unavailable. Insufficient balance.")
                  /\ Len(ops) = 1
            /\ Sent(c) => /\ ops[3].op = "sendTransaction"
                          /\ CountOps(c, "getBalance") = 2

\* an invalid address, a chain outside the registry and no key, all at once
C16_Witness ==
    /\ env = ""
    /\ \E c \in FundCalls :
          /\ call[c].address = "not-an-address"
          /\ call[c].chainId = "42161"
          /\ IsRejected(c, "Invalid Ethereum address")

(***************************************************************************)
(* C17 as claimed: a fund call whose transfer was submitted ends Funded;   *)
(* an error response means that no transfer was submitted.                 *)
(***************************************************************************)
C17_ErrorMeansNoTransfer ==
    \A c \in FundCalls :
        (call[c].pc = "done" /\ call[c].txHash # 0) => IsFunded(c)

(***************************************************************************)
(* C17 as amended: a call answers Funded only for its own transfer, mined; *)
(* a call that ends with an error before invoking sendTransaction has no   *)
(* transfer; a call that ends with an error after invoking sendTransaction *)
(* ends with the 500 of the catch block, its transfer, if the ledger       *)
(* accepted it, staying with the ledger.                                   *)
(***************************************************************************)
C17_FundedOnlyWhenMined ==
    \A c \in FundCalls :
        /\ IsFunded(c)
           => /\ call[c].txHash \in DOMAIN txs
              /\ txs[call[c].txHash].status = "mined"
              /\ txs[call[c].txHash].to = call[c].address
              /\ call[c].response.txHash = call[c].txHash
        /\ (call[c].pc = "done" /\ call[c].response.status \in {400, 500} /\ ~Sent(c))
           => call[c].txHash = 0
        /\ (call[c].pc = "done" /\ call[c].response.status \in {400, 500} /\ Sent(c))
           => /\ call[c].response.status = 500
              /\ call[c].ops[Len(call[c].ops)].op = "threw"
              /\ CountOps(c, "broadcast") = 0
        /\ call[c].txHash # 0 => call[c].txHash \in DOMAIN txs

\* a call answered 500 after tx.wait threw, whose transfer was mined
C17_Witness ==
    \E c \in FundCalls :
        /\ call[c].pc = "done"
        /\ call[c].response.status = 500
        /\ call[c].txHash # 0
        /\ txs[call[c].txHash].status = "mined"

(***************************************************************************)
(* C18 as claimed: a call invokes sendTransaction only when the custodian  *)
(* balance on that network is, at that moment, at least the funding amount.*)
(***************************************************************************)
C18_AffordableWhenSubmitting ==
    [][ \A c \in Calls :
          (call[c].pc = "awaitAddressBalance" /\ call'[c].pc = "awaitSend")
          => AmtGE(balance[call[c].chainId][FunderAddress], FundingWei(call[c].chainId)) ]_vars

(***************************************************************************)
(* C18 as amended: a call invokes sendTransaction only if the custodian    *)
(* balance it read at its affordability check was at least the funding     *)
(* amount; the balance may have fallen since, and a call answered "Funder  *)
(* wallet has insufficient balance" had passed that check and sent.        *)
(***************************************************************************)
C18_AffordableWhenRead ==
    \A c \in FundCalls :
        /\ Sent(c) => /\ SawFunder(c)
                      /\ AmtGE(call[c].funderBalance, FundingWei(call[c].chainId))
        /\ IsRejected(c, "Funder wallet has insufficient balance")
           => /\ Sent(c)
              /\ CountOps(c, "wait") = 0

\* a call that read a custodian balance equal to the funding amount and
\* sent when another call's transfer had emptied the wallet
C18_Witness ==
    \E c \in FundCalls :
        /\ call[c].funderBalance = FundingWei(call[c].chainId)
        /\ IsRejected(c, "Funder wallet has insufficient balance")
        /\ balance[call[c].chainId][FunderAddress] = Zero

(***************************************************************************)
(* C19: funding-status and fund agree on affordability.  When an entry of  *)
(* a funding-status answer shows the custodian balance a fund call read on *)
(* the same network, the entry's canFund is true exactly when the fund     *)
(* call passed its affordability check, the balance equal to the funding   *)
(* amount included.                                                        *)
(***************************************************************************)
C19_StatusAgreesWithFund ==
    \A c \in FundCalls, d \in Calls :
        (call[d].kind = "status" /\ SawFunder(c)) =>
            \A i \in DOMAIN call[d].balances :
                LET e == call[d].balances[i]
                IN  ( /\ "balance" \in DOMAIN e
                      /\ e.chainId = call[c].chainId
                      /\ parseEther(e.balance) = call[c].funderBalance )
                    => ( e.canFund <=>
                           ~IsRejected(c, "Funding service temporarily unavailable. Insufficient balance.") )

\* a status entry and a fund call that both saw exactly the funding amount
C19_Witness ==
    \E c \in FundCalls, d \in Calls :
        /\ call[d].kind = "status"
        /\ call[c].pc = "awaitAddressBalance"
        /\ call[c].funderBalance = FundingWei(call[c].chainId)
        /\ \E i \in DOMAIN call[d].balances :
              LET e == call[d].balances[i]
              IN  /\ "balance" \in DOMAIN e
                  /\ e.chainId = call[c].chainId
                  /\ e.balance = Dec(0, <<0, 0, 2, 5>>)
                  /\ e.canFund

====
